---- MODULE Spec2Model ----
(***************************************************************************)
(* Model of the media-stream WebSocket session of                          *)
(* src/backend/routers/twilio.py: the event loop of media_stream, the      *)
(* per-connection context dictionary, and the turn tasks                   *)
(* _process_audio_and_respond / _generate_and_send that the loop launches. *)
(*                                                                         *)
(* Scheduling is asyncio's: one thread, a task runs uninterrupted between  *)
(* two awaits that really suspend, tasks created with ensure_future are    *)
(* started in creation order before the creating task is resumed after a   *)
(* suspension.  Every action below is one such uninterrupted stretch.      *)
(***************************************************************************)
EXTENDS Integers, Sequences, FiniteSets, TLC

(* ------------------------------ bounds --------------------------------- *)
\* inbound frames handled on one connection
MaxEvents == 2
\* turn tasks one connection gets to create (timers included)
MaxTasks == 2

(* ------------------------- program constants --------------------------- *)
\* twilio.py:285  len(audio_buffer) >= 16000
Threshold == 16000
\* twilio.py:338  chunk_size = 640
chunk_size == 640
\* twilio.py:313  len(transcription.strip()) < 2
MinTextLen == 2
\* twilio.py:311 / 335  sample rates handed to resample
TelephonyRate == 8000
TtsRate == 22050

(* ------------------------------ inputs --------------------------------- *)
\* decoded payload sizes of media frames
PayloadLens == {1, 15999, 16000}
\* texts the speech-to-text collaborator may return (tuples of characters)
SttTexts == { <<>>, <<" ", "a", " ">>, <<"o", "k">> }
\* reply of the text-generation collaborator
AiText == <<"h", "i">>
\* byte lengths of the audio the synthesis collaborator may return:
\* odd, 2 samples, 1767 samples
TtsLens == {3, 4, 3534}
\* start frames: stream id, call id and four of the six custom parameters
StartMsgs ==
  { [streamSid |-> "MZ1",
     start |-> [callSid |-> "CA1",
                customParameters |-> [providerName |-> "Acme Dental",
                                      service |-> "checkup",
                                      userName |-> "Nora",
                                      purpose |-> "new_appointment"]]] }

VARIABLES
  ctrl,           \* "Connected" | "Active": media_stream's loop is running;
                  \* "Terminated": it has ended and the WebSocket is closed
  context,        \* the context dict of media_stream (twilio.py:242-254)
  timers,         \* call_later callbacks scheduled and not yet fired
  pending,        \* _process_audio_and_respond tasks created, not yet started
  starting,       \* TRUE while the created tasks are being started in order
  turns,          \* every turn task that got past its guard, in start order
  skipped,        \* created tasks that returned at the guard of twilio.py:303
  outbound,       \* frames sent with ws.send_text: outbound[t] holds the
                  \* frames turn t has sent, in the order it sent them
  handled,        \* number of inbound frames the loop has handled
  arrived,        \* every payload decoded at twilio.py:282, in arrival order
  calls,          \* calls of the functions of utils/audio.py made one on the
                  \* result of the other: function, arguments, result
  peer            \* a second connection served by the same process: the
                  \* context dict, timers, created tasks, turns and handled
                  \* frame count of its own call of media_stream

\* the variables of one media-stream session
session == <<ctrl, context, timers, pending, starting, turns, skipped,
             outbound, handled, arrived>>

vars == <<ctrl, context, timers, pending, starting, turns, skipped,
          outbound, handled, arrived, calls, peer>>

(* ------------------------------ helpers -------------------------------- *)
\* dict.get(key, default)
Get(d, k, default) == IF k \in DOMAIN d THEN d[k] ELSE default

RECURSIVE SumLen(_)
SumLen(s) == IF s = <<>> THEN 0 ELSE Head(s).len + SumLen(Tail(s))

\* len(context["audio_buffer"]): the buffer is kept as the sequence of the
\* payloads appended to it
BufLen(buf) == SumLen(buf)

RECURSIVE LStrip(_)
LStrip(s) == IF s # <<>> /\ Head(s) = " " THEN LStrip(Tail(s)) ELSE s

RECURSIVE RStrip(_)
RStrip(s) ==
  IF s # <<>> /\ s[Len(s)] = " " THEN RStrip(SubSeq(s, 1, Len(s) - 1)) ELSE s

\* str.strip()
Strip(s) == RStrip(LStrip(s))

\* IsNoise without the length test
IsNoise_EmptyOnly(text) == text = <<>>

\* twilio.py:313  not transcription or len(transcription.strip()) < 2
IsNoise(text) == text = <<>> \/ Len(Strip(text)) < MinTextLen

\* OddLength with frombytes dropping a last odd byte instead of raising
OddLength_Truncates(nbytes) == FALSE

\* array("h").frombytes raises ValueError on a byte count that is odd
OddLength(nbytes) == nbytes % 2 = 1

\* byte length of resample(pcm, from, to) for an even byte count
ResampleLen(nbytes, from_rate, to_rate) ==
  IF from_rate = to_rate THEN nbytes
  ELSE 2 * (((nbytes \div 2) * to_rate) \div from_rate)

\* byte length of pcm_to_mulaw(pcm): one byte per 16-bit sample
MulawLen(nbytes) == nbytes \div 2

Min(a, b) == IF a < b THEN a ELSE b

\* turn tasks are numbered in the order they get past their guard
TurnIds == 1..MaxTasks

InFlight(t) == turns[t].pc # "done"

\* ws.send_text succeeds while the connection is up and raises afterwards
TransportUp == ctrl # "Terminated"

\* a step of anything but the start of a created task: not possible while
\* the tasks created by the loop are being started back to back
Settled == ~starting

(* ------------------------------- Init ---------------------------------- *)
Init ==
  /\ ctrl = "Connected"
  /\ context = [stream_sid |-> "", call_sid |-> "", provider_name |-> "",
                service |-> "", user_name |-> "", purpose |-> "",
                details |-> "", time_preference |-> "",
                conversation_history |-> <<>>,
                audio_buffer |-> <<>>,
                is_processing |-> FALSE]
  /\ timers = 0
  /\ pending = 0
  /\ starting = FALSE
  /\ turns = <<>>
  /\ skipped = 0
  /\ outbound = <<>>
  /\ handled = 0
  /\ arrived = <<>>
  /\ calls = <<>>
  /\ peer = [ctrl |-> "Connected", context |-> context, timers |-> 0,
             pending |-> 0, turns |-> <<>>, handled |-> 0]

(* ---------------------- media_stream: the event loop ------------------- *)
\* CanReceive with the loop still running after the close
CanReceive_AfterClose ==
  /\ handled < MaxEvents
  /\ Settled

\* CanReceive with the loop awaiting the turn it launched
CanReceive_WaitsForTurn ==
  /\ ctrl # "Terminated"
  /\ handled < MaxEvents
  /\ Settled
  /\ \A t \in DOMAIN turns : ~InFlight(t)

\* the loop is at ws.receive_text() and a frame is delivered to it
CanReceive ==
  /\ ctrl # "Terminated"
  /\ handled < MaxEvents
  /\ Settled

\* tasks created so far: scheduled, waiting to start, turned away, or turns
Tasks == timers + pending + skipped + Len(turns)

\* event tags whose branch only logs, and a tag that matches no branch
LogOnlyEvents == {"connected", "stop", "mark", "dtmf"}

\* HandleLogOnly with the stop branch leaving the loop
HandleLogOnly_StopBreaks(event) ==
  /\ CanReceive
  /\ event \in LogOnlyEvents
  /\ handled' = handled + 1
  /\ ctrl' = IF event = "stop" THEN "Terminated" ELSE ctrl
  /\ UNCHANGED <<context, timers, pending, starting, turns, skipped,
                 outbound, arrived, calls,
                 peer>>

\* twilio.py:262-263, 288-292: connected / stop / mark / unmatched tag
HandleLogOnly(event) ==
  /\ CanReceive
  /\ event \in LogOnlyEvents
  /\ handled' = handled + 1
  /\ UNCHANGED <<ctrl, context, timers, pending, starting, turns, skipped,
                 outbound, arrived, calls,
                 peer>>

\* twilio.py:265-279: start
HandleStart(msg) ==
  /\ CanReceive
  /\ Tasks < MaxTasks
  /\ LET start_info == Get(msg, "start", << >>)
         cp == Get(start_info, "customParameters", << >>)
     IN context' =
          [context EXCEPT
             !.stream_sid = Get(msg, "streamSid", ""),
             !.call_sid = Get(start_info, "callSid", ""),
             !.provider_name = Get(cp, "providerName", "the business"),
             !.service = Get(cp, "service", "appointment"),
             !.user_name = Get(cp, "userName", "a customer"),
             !.purpose = Get(cp, "purpose", "new_appointment"),
             !.details = Get(cp, "details", ""),
             !.time_preference = Get(cp, "timePreference", "flexible")]
  /\ timers' = timers + 1
  /\ ctrl' = "Active"
  /\ handled' = handled + 1
  /\ UNCHANGED <<pending, starting, turns, skipped, outbound, arrived, calls,
                 peer>>

\* HandleMedia with > in place of >= at line 285
HandleMedia_Gt(n) ==
  /\ CanReceive
  /\ LET buf == IF n = 0 THEN context.audio_buffer
                ELSE Append(context.audio_buffer, [len |-> n])
         launch == BufLen(buf) > Threshold /\ ~context.is_processing
     IN /\ launch => Tasks < MaxTasks
        /\ context' = [context EXCEPT !.audio_buffer = buf]
        /\ pending' = IF launch THEN pending + 1 ELSE pending
  /\ arrived' = IF n = 0 THEN arrived ELSE Append(arrived, [len |-> n])
  /\ handled' = handled + 1
  /\ UNCHANGED <<ctrl, timers, starting, turns, skipped, outbound, calls, peer>>

\* twilio.py:281-286: media with a payload that decodes to n bytes
HandleMedia(n) ==
  /\ CanReceive
  /\ LET buf == IF n = 0 THEN context.audio_buffer
                ELSE Append(context.audio_buffer, [len |-> n])
         launch == BufLen(buf) >= Threshold /\ ~context.is_processing
     IN /\ launch => Tasks < MaxTasks
        /\ context' = [context EXCEPT !.audio_buffer = buf]
        /\ pending' = IF launch THEN pending + 1 ELSE pending
  /\ arrived' = IF n = 0 THEN arrived ELSE Append(arrived, [len |-> n])
  /\ handled' = handled + 1
  /\ UNCHANGED <<ctrl, timers, starting, turns, skipped, outbound, calls, peer>>

\* frames whose handling raises inside the try of twilio.py:256-297:
\* json.loads on text that is not JSON, msg["media"]["payload"] on a media
\* frame without that key, b64decode on wrongly padded base64
BadFrames == {"not_json", "media_no_payload", "media_bad_base64"}

\* twilio.py:296-297: the except clause is outside the while loop
HandleMalformed(frame) ==
  /\ CanReceive
  /\ frame \in BadFrames
  /\ ctrl' = "Terminated"
  /\ handled' = handled + 1
  /\ UNCHANGED <<context, timers, pending, starting, turns, skipped,
                 outbound, arrived, calls,
                 peer>>

\* TransportClose cancelling the turn tasks that are in flight
TransportClose_Cancels ==
  /\ ctrl # "Terminated"
  /\ Settled
  /\ ctrl' = "Terminated"
  /\ turns' = [t \in DOMAIN turns |->
                 IF InFlight(t)
                 THEN [turns[t] EXCEPT !.pc = "done", !.result = "cancelled",
                                       !.last_msg = <<>>, !.messages = <<>>]
                 ELSE turns[t]]
  /\ context' = [context EXCEPT !.is_processing = FALSE]
  /\ UNCHANGED <<timers, pending, starting, outbound, handled, skipped,
                 arrived, calls,
                 peer>>

\* twilio.py:294-295: the peer closes the WebSocket or the connection
\* breaks, receive_text raises WebSocketDisconnect and the loop ends
TransportClose ==
  /\ ctrl # "Terminated"
  /\ Settled
  /\ ctrl' = "Terminated"
  /\ UNCHANGED <<context, timers, pending, starting, turns, outbound,
                 handled, skipped, arrived, calls,
                 peer>>

(* ---------------------- _generate_ai_response -------------------------- *)
\* a prompt is the tuple of the parts its f-string is put together from; a
\* transcript entry's content is a tuple of characters

\* conversation_history[-6:] taking every entry
Recent_All(conversation_history) == conversation_history

\* twilio.py:408  conversation_history[-6:]
Recent(conversation_history) ==
  LET n == Len(conversation_history)
      first == IF n - 6 < 0 THEN 0 ELSE n - 6
  IN SubSeq(conversation_history, first + 1, n)

\* twilio.py:397  the content of the final transcript entry, or "Hello?"
last_msg(ctx) ==
  IF ctx.conversation_history # <<>>
  THEN ctx.conversation_history[Len(ctx.conversation_history)].content
  ELSE <<"Hello?">>

\* twilio.py:375-401  x or default
Or(x, default) == IF x = "" THEN default ELSE x

\* twilio.py:375-412: the messages handed to llm.chat_completion
messages(ctx, is_initial) ==
  LET purpose_text ==
        IF ctx.purpose = "new_appointment" THEN "Book new appointment"
        ELSE IF ctx.purpose = "reschedule" THEN "Reschedule"
        ELSE ctx.purpose
      sys_prompt ==
        IF is_initial
        THEN <<"opening message for a call to ", ctx.provider_name,
               " on behalf of ", ctx.user_name>>
        ELSE <<"live phone conversation at ", ctx.provider_name>>
      user_prompt ==
        IF is_initial
        THEN <<"Generate opening for: ", ctx.service, purpose_text,
               Or(ctx.details, "None"), Or(ctx.time_preference, "Flexible")>>
        ELSE <<"The receptionist said: ">> \o last_msg(ctx)
               \o <<ctx.service, Or(ctx.time_preference, "Flexible"),
                    Or(ctx.details, "None")>>
  IN <<[role |-> "system", content |-> sys_prompt]>>
       \o Recent(ctx.conversation_history)
       \o <<[role |-> "user", content |-> user_prompt]>>

(* ----------------------------- turn tasks ------------------------------ *)
\* a task that got past its guard; pc names the await it is suspended at:
\*   "stt"  await _transcribe            (twilio.py:312)
\*   "gen"  await llm.chat_completion    (twilio.py:403)
\*   "tts"  await _tts                   (twilio.py:334)
\*   "send" about to send the chunk at offset i (twilio.py:339-347)
\*   "mark" about to send the mark       (twilio.py:349-353)
\*   "done" the coroutine has returned
\* last_msg is the transcript content read at twilio.py:397 and messages the
\* request composed at lines 405-409, both held while the turn is suspended
\* in the generation call and empty before and after,
\* raw is the audio drained from the accumulator, audio_len the byte count
\* the synthesis call returned (-1 before it has), mulaw_len = len(mulaw_data)
\* and i the loop variable of twilio.py:339
NewTurn(kind, raw, pc) ==
  [kind |-> kind, pc |-> pc, result |-> "running", raw |-> raw,
   last_msg |-> <<>>, messages |-> <<>>,
   audio_len |-> -1, mulaw_len |-> 0, i |-> 0]

\* Finish without the finally clause
Finish_NoReset(t, result) ==
  /\ turns' = [turns EXCEPT ![t].pc = "done", ![t].result = result,
                            ![t].last_msg = <<>>, ![t].messages = <<>>]
  /\ context' = context

\* the coroutine of turn t returns; a media turn passes through the
\* finally clause of twilio.py:323-324 (or line 314) on its way out
Finish(t, result) ==
  /\ turns' = [turns EXCEPT ![t].pc = "done", ![t].result = result,
                            ![t].last_msg = <<>>, ![t].messages = <<>>]
  /\ context' = IF turns[t].kind = "media"
                THEN [context EXCEPT !.is_processing = FALSE]
                ELSE context

\* InitialTurnStart emptying the accumulator as a media turn does
InitialTurnStart_Drains ==
  /\ Settled
  /\ timers > 0
  /\ timers' = timers - 1
  /\ turns' = Append(turns, [NewTurn("initial", context.audio_buffer, "gen")
                               EXCEPT
                             !.messages = messages(context, TRUE)])
  /\ context' = [context EXCEPT !.audio_buffer = <<>>]
  /\ outbound' = Append(outbound, <<>>)
  /\ UNCHANGED <<ctrl, pending, starting, handled, skipped, arrived, calls,
                 peer>>

\* InitialTurnStart entering the pipeline at the speech-to-text call
InitialTurnStart_Transcribes ==
  /\ Settled
  /\ timers > 0
  /\ timers' = timers - 1
  /\ turns' = Append(turns, [NewTurn("initial", <<>>, "stt") EXCEPT
                             !.messages = messages(context, TRUE)])
  /\ outbound' = Append(outbound, <<>>)
  /\ UNCHANGED <<ctrl, context, pending, starting, handled, skipped, arrived,
                 calls, peer>>

\* twilio.py:277-279 and 327-329: the timer fires, the task is created and
\* runs up to the await of the text-generation call
InitialTurnStart ==
  /\ Settled
  /\ timers > 0
  /\ timers' = timers - 1
  /\ turns' = Append(turns, [NewTurn("initial", <<>>, "gen") EXCEPT
                             !.messages = messages(context, TRUE)])
  /\ outbound' = Append(outbound, <<>>)
  /\ UNCHANGED <<ctrl, context, pending, starting, handled, skipped, arrived,
                 calls, peer>>

\* ProcessAudioStart with line 308 left out
ProcessAudioStart_NoClear ==
  /\ pending > 0
  /\ pending' = pending - 1
  /\ starting' = (pending' > 0)
  /\ IF context.is_processing \/ BufLen(context.audio_buffer) = 0
     THEN /\ skipped' = skipped + 1
          /\ UNCHANGED <<context, turns, outbound>>
     ELSE /\ context' = [context EXCEPT !.is_processing = TRUE]
          /\ turns' = Append(turns, NewTurn("media", context.audio_buffer,
                                            "stt"))
          /\ outbound' = Append(outbound, <<>>)
          /\ UNCHANGED skipped
  /\ UNCHANGED <<ctrl, timers, handled, arrived, calls,
                 peer>>

\* ProcessAudioStart with line 305 left out
ProcessAudioStart_NoSet ==
  /\ pending > 0
  /\ pending' = pending - 1
  /\ starting' = (pending' > 0)
  /\ IF context.is_processing \/ BufLen(context.audio_buffer) = 0
     THEN /\ skipped' = skipped + 1
          /\ UNCHANGED <<context, turns, outbound>>
     ELSE /\ context' = [context EXCEPT !.audio_buffer = <<>>]
          /\ turns' = Append(turns, NewTurn("media", context.audio_buffer,
                                            "stt"))
          /\ outbound' = Append(outbound, <<>>)
          /\ UNCHANGED skipped
  /\ UNCHANGED <<ctrl, timers, handled, arrived, calls,
                 peer>>

\* twilio.py:302-312: a created task starts; guard, drain, decode, resample,
\* wrap, and suspend in the speech-to-text call
ProcessAudioStart ==
  /\ pending > 0
  /\ pending' = pending - 1
  /\ starting' = (pending' > 0)
  /\ IF context.is_processing \/ BufLen(context.audio_buffer) = 0
     THEN /\ skipped' = skipped + 1
          /\ UNCHANGED <<context, turns, outbound>>
     ELSE /\ context' = [context EXCEPT !.is_processing = TRUE,
                                        !.audio_buffer = <<>>]
          /\ turns' = Append(turns, NewTurn("media", context.audio_buffer,
                                            "stt"))
          /\ outbound' = Append(outbound, <<>>)
          /\ UNCHANGED skipped
  /\ UNCHANGED <<ctrl, timers, handled, arrived, calls,
                 peer>>

\* SttReturn going on to generation without the append of line 319
SttReturn_NoAppend(t, text) ==
  /\ Settled
  /\ t \in DOMAIN turns
  /\ turns[t].pc = "stt"
  /\ IF IsNoise(text)
     THEN /\ turns' = [turns EXCEPT ![t].pc = "done", ![t].result = "noise"]
          /\ context' = [context EXCEPT !.is_processing = FALSE]
     ELSE /\ turns' = [turns EXCEPT ![t].pc = "gen",
                         ![t].last_msg = last_msg(context),
                         ![t].messages = messages(context, FALSE)]
          /\ UNCHANGED context
  /\ UNCHANGED <<ctrl, timers, pending, starting, outbound,
                 handled, skipped, arrived, calls,
                 peer>>

\* SttReturn with the request composed from the transcript as it was
\* before the append of line 319
SttReturn_ReadsFirst(t, text) ==
  /\ Settled
  /\ t \in DOMAIN turns
  /\ turns[t].pc = "stt"
  /\ IF IsNoise(text)
     THEN /\ turns' = [turns EXCEPT ![t].pc = "done", ![t].result = "noise"]
          /\ context' = [context EXCEPT !.is_processing = FALSE]
     ELSE /\ turns' = [turns EXCEPT ![t].pc = "gen",
                         ![t].last_msg = last_msg(context),
                         ![t].messages = messages(context, FALSE)]
          /\ context' = [context EXCEPT !.conversation_history =
                           Append(@, [role |-> "user", content |-> text,
                                      turn |-> t])]
  /\ UNCHANGED <<ctrl, timers, pending, starting, outbound,
                 handled, skipped, arrived, calls,
                 peer>>

\* twilio.py:313-320, 327-329, 374-403: the speech-to-text call returns text
\* (an error status of the service comes back as the empty text,
\* twilio.py:368-370); for text that is not noise the turn appends its user
\* entry, composes the generation request from the transcript and suspends
\* in llm.chat_completion, with no suspension in between (_broadcast has no
\* await in it)
SttReturn(t, text) ==
  /\ Settled
  /\ t \in DOMAIN turns
  /\ turns[t].pc = "stt"
  /\ IF IsNoise(text)
     THEN /\ turns' = [turns EXCEPT ![t].pc = "done", ![t].result = "noise"]
          /\ context' = [context EXCEPT !.is_processing = FALSE]
     ELSE LET ctx == [context EXCEPT !.conversation_history =
                        Append(@, [role |-> "user", content |-> text,
                                   turn |-> t])]
          IN /\ turns' = [turns EXCEPT ![t].pc = "gen",
                            ![t].last_msg = last_msg(ctx),
                            ![t].messages = messages(ctx, FALSE)]
             /\ context' = ctx
  /\ UNCHANGED <<ctrl, timers, pending, starting, outbound,
                 handled, skipped, arrived, calls,
                 peer>>

\* CallFails with the exception reaching the loop of media_stream
CallFails_Escapes(t, pc) ==
  /\ Settled
  /\ t \in DOMAIN turns
  /\ turns[t].pc = pc
  /\ Finish(t, "failed")
  /\ ctrl' = "Terminated"
  /\ UNCHANGED <<timers, pending, starting, outbound, handled, skipped,
                 arrived, calls,
                 peer>>

\* a collaborator call of turn t raises while the turn is suspended at pc:
\* caught at twilio.py:321 or 354
CallFails(t, pc) ==
  /\ Settled
  /\ t \in DOMAIN turns
  /\ turns[t].pc = pc
  /\ Finish(t, "failed")
  /\ UNCHANGED <<ctrl, timers, pending, starting, outbound,
                 handled, skipped, arrived, calls,
                 peer>>

SttFails(t) == CallFails(t, "stt")
GenFails(t) == CallFails(t, "gen")
TtsFails(t) == CallFails(t, "tts")

\* twilio.py:329-334: the text-generation call returns
GenReturn(t, ai_text) ==
  /\ Settled
  /\ t \in DOMAIN turns
  /\ turns[t].pc = "gen"
  /\ turns' = [turns EXCEPT ![t].pc = "tts",
                            ![t].last_msg = <<>>, ![t].messages = <<>>]
  /\ context' = [context EXCEPT !.conversation_history =
                   Append(@, [role |-> "assistant", content |-> ai_text,
                              turn |-> t])]
  /\ UNCHANGED <<ctrl, timers, pending, starting, outbound,
                 handled, skipped, arrived, calls,
                 peer>>

\* TtsReturn going to the mark without entering the chunk loop
TtsReturn_NoChunks(t, nbytes) ==
  /\ Settled
  /\ t \in DOMAIN turns
  /\ turns[t].pc = "tts"
  /\ turns' = [turns EXCEPT ![t].audio_len = nbytes,
                 ![t].mulaw_len = MulawLen(ResampleLen(nbytes, TtsRate,
                                                       TelephonyRate)),
                 ![t].pc = "mark"]
  /\ UNCHANGED <<ctrl, context, timers, pending, starting, outbound,
                 handled, skipped, arrived, calls,
                 peer>>

\* twilio.py:334-339: the synthesis call returns nbytes of 22050 Hz PCM;
\* resample and pcm_to_mulaw raise on an odd byte count
TtsReturn(t, nbytes) ==
  /\ Settled
  /\ t \in DOMAIN turns
  /\ turns[t].pc = "tts"
  /\ IF OddLength(nbytes)
     THEN /\ turns' = [turns EXCEPT ![t].audio_len = nbytes,
                                    ![t].pc = "done", ![t].result = "failed"]
          /\ context' = IF turns[t].kind = "media"
                        THEN [context EXCEPT !.is_processing = FALSE]
                        ELSE context
     ELSE LET n == MulawLen(ResampleLen(nbytes, TtsRate, TelephonyRate))
          IN /\ turns' = [turns EXCEPT ![t].audio_len = nbytes,
                            ![t].mulaw_len = n,
                            ![t].pc = IF n > 0 THEN "send" ELSE "mark"]
             /\ UNCHANGED context
  /\ UNCHANGED <<ctrl, timers, pending, starting, outbound,
                 handled, skipped, arrived, calls,
                 peer>>

\* ChunkLen without the clamp at the end of the data
ChunkLen_Full(n, i) == chunk_size

\* bytes of the slice mulaw_data[i : i + chunk_size]
ChunkLen(n, i) == Min(chunk_size, n - i)

\* twilio.py:339-347: one iteration: send the chunk at offset i, then sleep
SendChunk(t) ==
  /\ Settled
  /\ t \in DOMAIN turns
  /\ turns[t].pc = "send"
  /\ IF TransportUp
     THEN /\ outbound' = [outbound EXCEPT ![t] = Append(@,
                [event |-> "media", streamSid |-> context.stream_sid,
                 off |-> turns[t].i,
                 len |-> ChunkLen(turns[t].mulaw_len, turns[t].i)])]
          /\ turns' = [turns EXCEPT
                ![t].i = @ + chunk_size,
                ![t].pc = IF turns[t].i + chunk_size < turns[t].mulaw_len
                          THEN "send" ELSE "mark"]
          /\ UNCHANGED context
     ELSE /\ Finish(t, "failed")
          /\ UNCHANGED outbound
  /\ UNCHANGED <<ctrl, timers, pending, starting, handled, skipped, arrived,
                 calls, peer>>

\* twilio.py:349-353: the mark after the last chunk
SendMark(t) ==
  /\ Settled
  /\ t \in DOMAIN turns
  /\ turns[t].pc = "mark"
  /\ IF TransportUp
     THEN /\ outbound' = [outbound EXCEPT ![t] = Append(@,
                [event |-> "mark", streamSid |-> context.stream_sid,
                 name |-> "audio_complete"])]
          /\ Finish(t, "completed")
     ELSE /\ Finish(t, "failed")
          /\ UNCHANGED outbound
  /\ UNCHANGED <<ctrl, timers, pending, starting, handled, skipped, arrived,
                 calls, peer>>

(* --------------------------- specification ----------------------------- *)
\* a step of the task of turn t: an await of the task completes
TurnStep(t) ==
  \/ \E text \in SttTexts : SttReturn(t, text)
  \/ SttFails(t)
  \/ GenReturn(t, AiText)
  \/ GenFails(t)
  \/ \E nbytes \in TtsLens : TtsReturn(t, nbytes)
  \/ TtsFails(t)
  \/ SendChunk(t)
  \/ SendMark(t)

Next ==
  \/ \E event \in LogOnlyEvents : HandleLogOnly(event)
  \/ \E msg \in StartMsgs : HandleStart(msg)
  \/ \E n \in PayloadLens : HandleMedia(n)
  \/ \E frame \in BadFrames : HandleMalformed(frame)
  \/ TransportClose
  \/ InitialTurnStart
  \/ ProcessAudioStart
  \/ \E t \in TurnIds : \E text \in SttTexts : SttReturn(t, text)
  \/ \E t \in TurnIds : SttFails(t)
  \/ \E t \in TurnIds : GenReturn(t, AiText)
  \/ \E t \in TurnIds : GenFails(t)
  \/ \E t \in TurnIds : \E nbytes \in TtsLens : TtsReturn(t, nbytes)
  \/ \E t \in TurnIds : TtsFails(t)
  \/ \E t \in TurnIds : SendChunk(t)
  \/ \E t \in TurnIds : SendMark(t)

Spec == Init /\ [][Next]_vars

\* every task that can take a step eventually takes one: collaborator calls
\* return or raise, sleeps end, timers fire
FairSpec ==
  /\ Spec
  /\ WF_vars(InitialTurnStart)
  /\ WF_vars(ProcessAudioStart)
  /\ WF_vars(\E t \in DOMAIN turns : TurnStep(t))

TypeOK ==
  /\ ctrl \in {"Connected", "Active", "Terminated"}
  /\ context.is_processing \in BOOLEAN
  /\ timers \in 0..MaxTasks
  /\ pending \in 0..MaxEvents
  /\ starting \in BOOLEAN
  /\ handled \in 0..MaxEvents
  /\ skipped \in 0..MaxTasks
  /\ \A t \in DOMAIN turns :
       /\ turns[t].kind \in {"initial", "media"}
       /\ turns[t].pc \in {"stt", "gen", "tts", "send", "mark", "done"}

(* ------------------------- a second connection ------------------------- *)
\* Every connection is served by its own call of media_stream, whose
\* context is the dict created at twilio.py:242 of that call; the turn
\* tasks get the ws and the context of their connection as arguments.  The
\* second connection is followed through the frames below up to the
\* generation call of its first media turn.

\* frames the second connection receives, in order; the payload is given by
\* its decoded length
PeerFrames ==
  << [event |-> "start", streamSid |-> "MZ2",
      start |-> [callSid |-> "CA2",
                 customParameters |-> [providerName |-> "Bright Smiles",
                                       service |-> "cleaning",
                                       userName |-> "Omar",
                                       purpose |-> "reschedule"]]],
     [event |-> "media", media |-> [payload |-> Threshold]] >>

\* the frame delivered next to the loop of the second connection
PeerFrame == PeerFrames[peer.handled + 1]

PeerCanReceive ==
  /\ peer.ctrl # "Terminated"
  /\ peer.handled < Len(PeerFrames)
  /\ peer.pending = 0

\* PeerHandleStart with the context a module-level dict that every
\* connection writes to
PeerHandleStart_SharedContext ==
  /\ PeerCanReceive
  /\ PeerFrame.event = "start"
  /\ LET msg == PeerFrame
         start_info == Get(msg, "start", << >>)
         cp == Get(start_info, "customParameters", << >>)
     IN context' =
          [context EXCEPT
             !.stream_sid = Get(msg, "streamSid", ""),
             !.call_sid = Get(start_info, "callSid", ""),
             !.provider_name = Get(cp, "providerName", "the business"),
             !.service = Get(cp, "service", "appointment"),
             !.user_name = Get(cp, "userName", "a customer"),
             !.purpose = Get(cp, "purpose", "new_appointment"),
             !.details = Get(cp, "details", ""),
             !.time_preference = Get(cp, "timePreference", "flexible")]
  /\ peer' = [peer EXCEPT !.timers = @ + 1, !.ctrl = "Active",
                          !.handled = @ + 1]
  /\ UNCHANGED <<ctrl, timers, pending, starting, turns, skipped, outbound,
                 handled, arrived, calls>>

\* twilio.py:265-279 on the second connection
PeerHandleStart ==
  /\ PeerCanReceive
  /\ PeerFrame.event = "start"
  /\ LET msg == PeerFrame
         start_info == Get(msg, "start", << >>)
         cp == Get(start_info, "customParameters", << >>)
     IN peer' =
          [peer EXCEPT
             !.context.stream_sid = Get(msg, "streamSid", ""),
             !.context.call_sid = Get(start_info, "callSid", ""),
             !.context.provider_name = Get(cp, "providerName", "the business"),
             !.context.service = Get(cp, "service", "appointment"),
             !.context.user_name = Get(cp, "userName", "a customer"),
             !.context.purpose = Get(cp, "purpose", "new_appointment"),
             !.context.details = Get(cp, "details", ""),
             !.context.time_preference = Get(cp, "timePreference", "flexible"),
             !.timers = @ + 1,
             !.ctrl = "Active",
             !.handled = @ + 1]
  /\ UNCHANGED <<session, calls>>

\* twilio.py:281-286 on the second connection
PeerHandleMedia ==
  /\ PeerCanReceive
  /\ PeerFrame.event = "media"
  /\ LET n == PeerFrame.media.payload
         buf == IF n = 0 THEN peer.context.audio_buffer
                ELSE Append(peer.context.audio_buffer, [len |-> n])
         launch == BufLen(buf) >= Threshold /\ ~peer.context.is_processing
     IN peer' = [peer EXCEPT
                   !.context.audio_buffer = buf,
                   !.pending = IF launch THEN @ + 1 ELSE @,
                   !.handled = @ + 1]
  /\ UNCHANGED <<session, calls>>

\* twilio.py:302-312 on the second connection
PeerProcessAudioStart ==
  /\ peer.pending > 0
  /\ IF peer.context.is_processing \/ BufLen(peer.context.audio_buffer) = 0
     THEN peer' = [peer EXCEPT !.pending = @ - 1]
     ELSE peer' = [peer EXCEPT
                     !.pending = @ - 1,
                     !.context.is_processing = TRUE,
                     !.context.audio_buffer = <<>>,
                     !.turns = Append(@, NewTurn("media",
                                 peer.context.audio_buffer, "stt"))]
  /\ UNCHANGED <<session, calls>>

\* twilio.py:313-320, 327-329, 374-403 on the second connection, the
\* speech-to-text call returning text that is not noise
PeerSttReturn ==
  /\ peer.pending = 0
  /\ \E t \in DOMAIN peer.turns : \E text \in {<<"o", "k">>} :
       /\ peer.turns[t].pc = "stt"
       /\ ~IsNoise(text)
       /\ LET ctx == [peer.context EXCEPT !.conversation_history =
                        Append(@, [role |-> "user", content |-> text,
                                   turn |-> t])]
          IN peer' = [peer EXCEPT
                        !.context = ctx,
                        !.turns[t].pc = "gen",
                        !.turns[t].last_msg = last_msg(ctx),
                        !.turns[t].messages = messages(ctx, FALSE)]
  /\ UNCHANGED <<session, calls>>

PeerNext ==
  \/ PeerHandleStart
  \/ PeerHandleMedia
  \/ PeerProcessAudioStart
  \/ PeerSttReturn

PairNext ==
  \/ Next
  \/ PeerNext

\* two connections served by one process
PairSpec == Init /\ [][PairNext]_vars

(* ========================= utils/audio.py ============================== *)
\* bytes objects are sequences of numbers in 0..255; the result of a call is
\* [raised |-> "" , value |-> the bytes returned] or, when the call
\* raises, [raised |-> the exception's name, value |-> <<>>]

(* --------------------------- int operators ----------------------------- *)
RECURSIVE AndNat(_, _)
AndNat(a, b) ==
  IF a = 0 \/ b = 0 THEN 0
  ELSE (a % 2) * (b % 2) + 2 * AndNat(a \div 2, b \div 2)

RECURSIVE OrNat(_, _)
OrNat(a, b) ==
  IF a = 0 THEN b
  ELSE IF b = 0 THEN a
  ELSE (IF a % 2 = 1 \/ b % 2 = 1 THEN 1 ELSE 0)
         + 2 * OrNat(a \div 2, b \div 2)

\* a & b for a mask b in 0..65535: the low 16 bits of a in two's complement
BitAnd(a, b) == AndNat(a % 65536, b)

\* a | b for a and b that are not negative
BitOr(a, b) == OrNat(a, b)

\* ~a
Invert(a) == -a - 1

\* a << k
Shl(a, k) == a * 2^k

\* a >> k, rounding towards minus infinity
Shr(a, k) == a \div 2^k

\* int(num / den) for den > 0: rounding towards zero
Trunc(num, den) == IF num >= 0 THEN num \div den ELSE -((-num) \div den)

(* ------------------------- array("h") and bytes ------------------------ *)
\* array("h", samples).tobytes(): two bytes per sample, low byte first
tobytes(samples) ==
  [j \in 1..(2 * Len(samples)) |->
     LET u == samples[(j + 1) \div 2] % 65536
     IN IF j % 2 = 1 THEN u % 256 ELSE u \div 256]

\* array("h").frombytes(data) for data of even length
frombytes(data) ==
  [k \in 1..(Len(data) \div 2) |->
     LET u == data[2 * k - 1] + 256 * data[2 * k]
     IN IF u >= 32768 THEN u - 65536 ELSE u]

Returned(bytes) == [raised |-> "", value |-> bytes]
Raised(name) == [raised |-> name, value |-> <<>>]

(* ------------------------------- mu-law -------------------------------- *)
\* _ULAW_TO_LINEAR with every entry positive
_ULAW_TO_LINEAR_NoSign(_i) ==
  LET _mu == BitAnd(Invert(_i), 255)
      _exp == BitAnd(Shr(_mu, 4), 7)
      _man == BitAnd(_mu, 15)
  IN Shl(Shl(_man, 3) + 132, _exp) - 132

\* audio.py:13-21: the entry of the table for the byte _i
_ULAW_TO_LINEAR(_i) ==
  LET _mu == BitAnd(Invert(_i), 255)
      _sign == BitAnd(_mu, 128)
      _exp == BitAnd(Shr(_mu, 4), 7)
      _man == BitAnd(_mu, 15)
      _sample == Shl(Shl(_man, 3) + 132, _exp) - 132
  IN IF _sign # 0 THEN -_sample ELSE _sample

\* audio.py:33-37: the loop that finds the exponent
RECURSIVE FindExponent(_, _, _)
FindExponent(sample, exponent, exp_mask) ==
  IF exponent > 0 /\ BitAnd(sample, exp_mask) = 0
  THEN FindExponent(sample, exponent - 1, Shr(exp_mask, 1))
  ELSE exponent

\* _linear_to_mulaw without the BIAS of line 32
_linear_to_mulaw_NoBias(sample) ==
  LET sign == BitAnd(Shr(sample, 8), 128)
      magnitude == IF sign # 0 THEN -sample ELSE sample
      clamped == IF magnitude > 32635 THEN 32635 ELSE magnitude
      exponent == FindExponent(clamped, 7, 16384)
      mantissa == BitAnd(Shr(clamped, exponent + 3), 15)
  IN BitAnd(Invert(BitOr(BitOr(sign, Shl(exponent, 4)), mantissa)), 255)

\* _linear_to_mulaw without the clamp of lines 30-31
_linear_to_mulaw_NoClamp(sample) ==
  LET sign == BitAnd(Shr(sample, 8), 128)
      magnitude == IF sign # 0 THEN -sample ELSE sample
      biased == magnitude + 132
      exponent == FindExponent(biased, 7, 16384)
      mantissa == BitAnd(Shr(biased, exponent + 3), 15)
  IN BitAnd(Invert(BitOr(BitOr(sign, Shl(exponent, 4)), mantissa)), 255)

\* audio.py:24-39
_linear_to_mulaw(sample) ==
  LET sign == BitAnd(Shr(sample, 8), 128)
      magnitude == IF sign # 0 THEN -sample ELSE sample
      clamped == IF magnitude > 32635 THEN 32635 ELSE magnitude
      biased == clamped + 132
      exponent == FindExponent(biased, 7, 16384)
      mantissa == BitAnd(Shr(biased, exponent + 3), 15)
  IN BitAnd(Invert(BitOr(BitOr(sign, Shl(exponent, 4)), mantissa)), 255)

\* audio.py:46-49
mulaw_to_pcm(mulaw_data) ==
  Returned(tobytes([k \in DOMAIN mulaw_data |->
                      _ULAW_TO_LINEAR(mulaw_data[k])]))

\* audio.py:52-56: frombytes raises on a byte count that is odd
pcm_to_mulaw(pcm_data) ==
  IF Len(pcm_data) % 2 = 1 THEN Raised("ValueError")
  ELSE LET samples == frombytes(pcm_data)
       IN Returned([k \in DOMAIN samples |-> _linear_to_mulaw(samples[k])])

(* ------------------------------ resample ------------------------------- *)
\* out_len rounded up
out_len_Up(n, from_rate, to_rate) ==
  (n * to_rate + from_rate - 1) \div from_rate

\* audio.py:65-66: int(len(src) / ratio) for ratio = from_rate / to_rate
out_len(n, from_rate, to_rate) == (n * to_rate) \div from_rate

\* audio.py:69-70: lo = int(i * ratio)
src_lo(i, from_rate, to_rate) == (i * from_rate) \div to_rate

\* audio.py:71: hi = min(lo + 1, len(src) - 1)
src_hi(i, n, from_rate, to_rate) ==
  Min(src_lo(i, from_rate, to_rate) + 1, n - 1)

\* audio.py:72-73: the output sample of index i, with frac the exact
\* fraction (i * from_rate mod to_rate) / to_rate; the floating-point
\* result is the same on every buffer of ResampleInputs
Interpolate(src, i, from_rate, to_rate) ==
  LET lo == src_lo(i, from_rate, to_rate)
      hi == src_hi(i, Len(src), from_rate, to_rate)
      r == (i * from_rate) % to_rate
  IN Trunc(src[lo + 1] * (to_rate - r) + src[hi + 1] * r, to_rate)

\* resample without the early return of lines 61-62
resample_NoShortcut(pcm_bytes, from_rate, to_rate) ==
  IF Len(pcm_bytes) % 2 = 1 THEN Raised("ValueError")
  ELSE IF from_rate = 0 \/ to_rate = 0 THEN Raised("ZeroDivisionError")
  ELSE LET src == frombytes(pcm_bytes)
           m == out_len(Len(src), from_rate, to_rate)
       IN IF \E i \in 0..(m - 1) :
               src_lo(i, from_rate, to_rate) > Len(src) - 1
          THEN Raised("IndexError")
          ELSE Returned(tobytes([k \in 1..m |->
                 Interpolate(src, k - 1, from_rate, to_rate)]))

\* audio.py:59-74: frombytes raises on an odd byte count, the divisions of
\* lines 65-66 on a rate of 0, src[lo] on an index past the end
resample(pcm_bytes, from_rate, to_rate) ==
  IF from_rate = to_rate THEN Returned(pcm_bytes)
  ELSE IF Len(pcm_bytes) % 2 = 1 THEN Raised("ValueError")
  ELSE IF from_rate = 0 \/ to_rate = 0 THEN Raised("ZeroDivisionError")
  ELSE LET src == frombytes(pcm_bytes)
           m == out_len(Len(src), from_rate, to_rate)
       IN IF \E i \in 0..(m - 1) :
               src_lo(i, from_rate, to_rate) > Len(src) - 1
          THEN Raised("IndexError")
          ELSE Returned(tobytes([k \in 1..m |->
                 Interpolate(src, k - 1, from_rate, to_rate)]))

(* ------------------------------ create_wav ----------------------------- *)
\* bytes literals of audio.py:84-95 as byte values
RIFF == <<82, 73, 70, 70>>
WAVE == <<87, 65, 86, 69>>
fmt == <<102, 109, 116, 32>>
data == <<100, 97, 116, 97>>

\* struct.pack("<I", x) (width 4) and struct.pack("<H", x) (width 2):
\* little-endian unsigned, least significant byte first
pack(x, width) == [k \in 1..width |-> (x \div (256 ^ (k - 1))) % 256]

\* values struct.pack accepts for "I" (width 4) and "H" (width 2): 0 up to
\* 2^32 - 1 and 0 up to 65535; the numbers packed here stay below 2^31
Packable(x, width) == x >= 0 /\ (width = 2 => x < 65536)

\* create_wav with byte_rate computed without the bytes per sample
create_wav_NoSampleWidth(pcm_bytes, sample_rate, num_channels, bits) ==
  LET byte_rate == sample_rate * num_channels
      block_align == num_channels * (bits \div 8)
      data_size == Len(pcm_bytes)
  IN IF ~ /\ Packable(num_channels, 2) /\ Packable(sample_rate, 4)
          /\ Packable(byte_rate, 4) /\ Packable(block_align, 2)
          /\ Packable(bits, 2)
     THEN Raised("struct.error")
     ELSE Returned(RIFF \o pack(36 + data_size, 4) \o WAVE \o fmt
                     \o pack(16, 4) \o pack(1, 2) \o pack(num_channels, 2)
                     \o pack(sample_rate, 4) \o pack(byte_rate, 4)
                     \o pack(block_align, 2) \o pack(bits, 2)
                     \o data \o pack(data_size, 4) \o pcm_bytes)

\* audio.py:77-98
create_wav(pcm_bytes, sample_rate, num_channels, bits) ==
  LET byte_rate == sample_rate * num_channels * (bits \div 8)
      block_align == num_channels * (bits \div 8)
      data_size == Len(pcm_bytes)
  IN IF ~ /\ Packable(num_channels, 2) /\ Packable(sample_rate, 4)
          /\ Packable(byte_rate, 4) /\ Packable(block_align, 2)
          /\ Packable(bits, 2)
     THEN Raised("struct.error")
     ELSE Returned(RIFF \o pack(36 + data_size, 4) \o WAVE \o fmt
                     \o pack(16, 4) \o pack(1, 2) \o pack(num_channels, 2)
                     \o pack(sample_rate, 4) \o pack(byte_rate, 4)
                     \o pack(block_align, 2) \o pack(bits, 2)
                     \o data \o pack(data_size, 4) \o pcm_bytes)

(* ----------------- synthesized audio on its way to Twilio -------------- *)
\* some n bytes of audio returned by the synthesis call
TtsAudio(n) == [k \in 1..n |-> (k * 37) % 256]

\* twilio.py:335-336: mulaw_data computed from audio_pcm_22k
Telephony(audio_pcm_22k) ==
  LET pcm_8k == resample(audio_pcm_22k, TtsRate, TelephonyRate)
  IN IF pcm_8k.raised # "" THEN pcm_8k ELSE pcm_to_mulaw(pcm_8k.value)

\* what lines 335-336 give for synthesized audio of each length in TtsLens
Encoded == [n \in TtsLens |-> Telephony(TtsAudio(n))]

(* ------------------------- calls of the functions ---------------------- *)
\* calls made one on the result of the other
MaxCalls == 3
\* samples of the longest buffer handed to resample
MaxSamples == 9

\* the k-th sample of the buffers handed to resample
Ramp(k) == ((k * 7919) % 65536) - 32768

\* telephony bytes handed to mulaw_to_pcm: every byte value, and buffers of
\* 0, 2 and 3 bytes
MulawInputs ==
  {<<b>> : b \in 0..255} \cup {<<>>, <<0, 255>>, <<127, 128, 1>>}

\* every 16-bit sample
Samples == -32768..32767

\* PCM bytes handed to pcm_to_mulaw besides the single samples: the empty
\* buffer, two samples, and buffers of 1 and 3 bytes
PcmInputs == {<<>>, tobytes(<<-1, 1>>), <<1>>, <<1, 2, 3>>}

\* the shortest buffer that 22050 -> 8000 divides without remainder
WholeSamples == 441

\* PCM bytes handed to resample: 0..MaxSamples samples, the same buffers
\* short of their last byte, and WholeSamples samples
ResampleInputs ==
  LET buf(n) == tobytes([k \in 1..n |-> Ramp(k)])
  IN {buf(n) : n \in 0..MaxSamples}
       \cup {SubSeq(buf(n), 1, 2 * n - 1) : n \in 1..MaxSamples}
       \cup {buf(WholeSamples)}

\* sample rates handed to resample: those of twilio.py:311 and 335, and 0
Rates == {0, 8000, 16000, 22050}

Call(fn, args, result) == [fn |-> fn, args |-> args, result |-> result]

LastCall == calls[Len(calls)]

\* mulaw_to_pcm is called
Decode ==
  /\ calls = <<>>
  /\ \E mulaw_data \in MulawInputs :
       calls' = <<Call("mulaw_to_pcm", <<mulaw_data>>,
                       mulaw_to_pcm(mulaw_data))>>
  /\ UNCHANGED <<session, peer>>

\* pcm_to_mulaw is called
Encode ==
  /\ calls = <<>>
  /\ \E pcm_data \in {tobytes(<<s>>) : s \in Samples} \cup PcmInputs :
       calls' = <<Call("pcm_to_mulaw", <<pcm_data>>,
                       pcm_to_mulaw(pcm_data))>>
  /\ UNCHANGED <<session, peer>>

\* resample is called
Resample ==
  /\ calls = <<>>
  /\ \E pcm_bytes \in ResampleInputs :
       \E from_rate \in Rates : \E to_rate \in Rates :
         calls' = <<Call("resample", <<pcm_bytes, from_rate, to_rate>>,
                         resample(pcm_bytes, from_rate, to_rate))>>
  /\ UNCHANGED <<session, peer>>

\* create_wav is called with the defaults num_channels = 1, bits = 16
Wrap ==
  /\ calls = <<>>
  /\ \E pcm_bytes \in ResampleInputs : \E sample_rate \in Rates :
       calls' = <<Call("create_wav", <<pcm_bytes, sample_rate>>,
                       create_wav(pcm_bytes, sample_rate, 1, 16))>>
  /\ UNCHANGED <<session, peer>>

\* what one codec function returned is handed to the other one
RoundTrip ==
  /\ calls # <<>>
  /\ Len(calls) < MaxCalls
  /\ LastCall.result.raised = ""
  /\ \/ /\ LastCall.fn = "mulaw_to_pcm"
        /\ calls' = Append(calls, Call("pcm_to_mulaw",
                             <<LastCall.result.value>>,
                             pcm_to_mulaw(LastCall.result.value)))
     \/ /\ LastCall.fn = "pcm_to_mulaw"
        /\ calls' = Append(calls, Call("mulaw_to_pcm",
                             <<LastCall.result.value>>,
                             mulaw_to_pcm(LastCall.result.value)))
  /\ UNCHANGED <<session, peer>>

AudioNext ==
  \/ Decode
  \/ Encode
  \/ Resample
  \/ Wrap
  \/ RoundTrip

\* the functions of utils/audio.py applied to the inputs above
AudioSpec == Init /\ [][AudioNext]_vars

(* ------------------- requests over long transcripts -------------------- *)
\* entries of the longest transcript a request is composed from
MaxHistory == 7

\* transcripts of n entries, each a user or an assistant entry, the k-th
\* one appended by turn k
Transcripts(n) ==
  {[k \in 1..n |-> [role |-> roles[k], content |-> <<"m">>, turn |-> k]] :
     roles \in [1..n -> {"user", "assistant"}]}

\* twilio.py:374-412: _generate_ai_response composes its request on a
\* context whose transcript has grown to n entries
Compose ==
  /\ calls = <<>>
  /\ \E n \in 0..MaxHistory : \E conversation_history \in Transcripts(n) :
       \E is_initial \in BOOLEAN :
         LET ctx == [context EXCEPT
                       !.conversation_history = conversation_history]
         IN calls' = <<Call("_generate_ai_response", <<ctx, is_initial>>,
                            Returned(messages(ctx, is_initial)))>>
  /\ UNCHANGED <<session, peer>>

RequestNext == Compose

\* the request composition of _generate_ai_response applied to transcripts
\* of up to MaxHistory entries
RequestSpec == Init /\ [][RequestNext]_vars

(* ============================== claims ================================= *)
\* turns whose coroutine has started and not yet returned
Running == {t \in DOMAIN turns : InFlight(t)}

\* all frames turn t has sent, in order
SentBy(t) == outbound[t]

\* turn t has sent a frame and has not finished
MidPlayback(t) == InFlight(t) /\ SentBy(t) # <<>>

\* C1: at every moment at most one turn execution of the session is in
\* flight, the initial turns of start frames and the media-triggered turns
\* counted together.
SingleFlight == Cardinality(Running) <= 1

\* C2: once a turn has sent its first outbound frame, no other turn of the
\* session sends a media or mark frame until that turn has finished.
NoInterleavedPlayback ==
  [][\A t \in DOMAIN turns :
       outbound'[t] # outbound[t]
         => \A a \in DOMAIN turns : MidPlayback(a) => a = t]_vars

MediaTurns == {t \in DOMAIN turns : turns[t].kind = "media"}

history == context.conversation_history

\* C3: of the media-triggered tasks of a session at most one is past the
\* is_processing guard at any time, and is_processing is true exactly
\* while one is; a task that starts while is_processing is true returns
\* with the accumulator, the transcript, the turns and the outbound frames
\* untouched; the transcript entries of media-triggered turns appear turn
\* by turn, never interleaved.
MediaSingleFlight ==
  /\ [](Cardinality(MediaTurns \cap Running) <= 1)
  /\ [](context.is_processing <=> MediaTurns \cap Running # {})
  /\ [](\A i, j \in DOMAIN history :
          (i < j /\ history[i].turn \in MediaTurns
                 /\ history[j].turn \in MediaTurns)
            => history[i].turn <= history[j].turn)
  /\ [][(pending' < pending /\ context.is_processing)
          => (context' = context /\ turns' = turns /\ outbound' = outbound)]_vars

\* a task launched back to back with another one has found is_processing
\* true and returned while the first one is in flight
MediaSingleFlightWitness ==
  /\ skipped > 0
  /\ context.is_processing
  /\ MediaTurns \cap Running # {}

audio_buffer == context.audio_buffer

\* C4: a media frame that leaves fewer than 16000 bytes in the accumulator
\* creates no task, one that leaves 16000 bytes or more while is_processing
\* is false creates exactly one; every drain takes at least 16000 bytes;
\* of the tasks created for the same accumulated audio the first one
\* started drains all of it and the others find is_processing true, so one
\* turn runs for it however many media frames are handled meanwhile.
ThresholdTrigger ==
  /\ [](\A t \in MediaTurns : SumLen(turns[t].raw) >= 16000)
  /\ []((pending > 0 /\ ~starting)
          => (~context.is_processing /\ SumLen(audio_buffer) >= 16000))
  /\ [](starting => context.is_processing)
  /\ [][(handled' # handled /\ audio_buffer' # audio_buffer)
          => IF SumLen(audio_buffer') >= 16000 /\ ~context.is_processing
             THEN pending' = pending + 1
             ELSE pending' = pending]_vars
  /\ [][pending' > pending => audio_buffer' # audio_buffer]_vars
  /\ [][Len(turns') > Len(turns) /\ turns'[Len(turns')].kind = "media"
          => /\ ~starting
             /\ Len(turns') = Len(turns) + 1
             /\ turns'[Len(turns')].raw = audio_buffer
             /\ audio_buffer' = <<>>]_vars

\* 15999 bytes have started nothing, one more byte has started the one
\* turn that runs for exactly these 16000 bytes
ThresholdTriggerWitness ==
  /\ Len(turns) = 1
  /\ turns[1].kind = "media"
  /\ InFlight(1)
  /\ turns[1].raw = <<[len |-> 15999], [len |-> 1]>>
  /\ audio_buffer = <<>>
  /\ pending = 0
  /\ skipped = 0

\* C5: handling an inbound frame, malformed ones included, never ends the
\* event loop; only the transport's own close does.
MalformedIgnored == [][handled' # handled => ctrl' # "Terminated"]_vars

\* C6: when a call made by a turn fails, the turn ends there and nothing
\* else happens: the loop's state, the timers and the created tasks are
\* untouched, a media turn leaves is_processing false, and while the
\* connection is up the loop goes on accepting frames.
FailureContained ==
  /\ [][\A t \in DOMAIN turns :
          (turns[t].result # "failed" /\ turns'[t].result = "failed")
            => /\ turns'[t].pc = "done"
               /\ ctrl' = ctrl
               /\ UNCHANGED <<timers, pending, starting, skipped, handled,
                              outbound, history, audio_buffer>>
               /\ turns[t].kind = "media" => ~context'.is_processing]_vars
  /\ []((/\ \E t \in DOMAIN turns : turns[t].result = "failed"
         /\ ctrl # "Terminated" /\ handled < MaxEvents /\ ~starting)
          => ENABLED HandleLogOnly("mark"))

\* the first media turn has failed, the connection is up, and a media frame
\* handled afterwards has started the next turn
FailureContainedWitness ==
  /\ Len(turns) >= 2
  /\ turns[1].kind = "media" /\ turns[1].result = "failed"
  /\ turns[2].kind = "media"
  /\ ctrl = "Connected"

\* C7: when every step that can be taken is eventually taken,
\* is_processing always returns to false, a media frame that leaves 16000
\* bytes or more in the accumulator while it is false creates a task, and
\* that task gets past the guard.
MissedTurnRecovers ==
  /\ context.is_processing ~> ~context.is_processing
  /\ (pending > 0 /\ ~starting) ~> context.is_processing
  /\ [][(/\ handled' # handled
         /\ audio_buffer' # audio_buffer
         /\ ~context.is_processing
         /\ SumLen(audio_buffer') >= 16000)
          => pending' = pending + 1]_vars

\* a turn aborted as noise is behind, is_processing is false again, and
\* the next turn has been created by a later media frame
MissedTurnRecoversWitness ==
  /\ Len(turns) >= 1
  /\ turns[1].kind = "media" /\ turns[1].result = "noise"
  /\ ~context.is_processing
  /\ pending = 1
  /\ skipped = 0

\* C8: when the speech-to-text call returns the empty text or a text with
\* fewer than 2 characters after stripping, the turn ends in that step with
\* is_processing false; it has appended nothing to the transcript, has
\* sent nothing, and generation and synthesis have not been called.
NoiseAborts ==
  /\ [][\A t \in TurnIds : \A text \in SttTexts :
          (SttReturn(t, text) /\ (text = <<>> \/ Len(Strip(text)) < 2))
            => /\ turns'[t].pc = "done"
               /\ ~context'.is_processing
               /\ history' = history
               /\ outbound' = outbound]_vars
  /\ [](\A t \in DOMAIN turns :
          turns[t].result = "noise"
            => /\ SentBy(t) = <<>>
               /\ \A k \in DOMAIN history : history[k].turn # t
               /\ turns[t].audio_len = -1)

NoiseAbortsWitness ==
  /\ Len(turns) = 1
  /\ turns[1].result = "noise"
  /\ ~context.is_processing
  /\ history = <<>>
  /\ SentBy(1) = <<>>

InitialTurns == {t \in DOMAIN turns : turns[t].kind = "initial"}

MediaFrames(t) == SelectSeq(SentBy(t), LAMBDA e : e.event = "media")
MarkFrames(t) == SelectSeq(SentBy(t), LAMBDA e : e.event = "mark")

\* C9 as stated: the initial turn is triggered once per session, and an
\* initial turn whose generation and synthesis succeeded with non-empty
\* audio on a connection that stayed open has sent at least one media frame
\* followed by exactly one mark.
InitialTurnOnce ==
  /\ timers + Cardinality(InitialTurns) <= 1
  /\ \A t \in InitialTurns :
       (turns[t].audio_len > 0 /\ turns[t].pc = "done" /\ ctrl # "Terminated")
         => /\ Len(MediaFrames(t)) >= 1
            /\ Len(MarkFrames(t)) = 1
            /\ SentBy(t)[Len(SentBy(t))].event = "mark"

\* C9 amended: every start frame schedules exactly one initial turn and
\* nothing else does, every timer becomes one initial turn; an initial turn
\* whose synthesis returned an even number of bytes holding at least 3
\* samples, on a connection that stayed open, ends completed with at least
\* one media frame followed by exactly one mark.
InitialTurnPerStart ==
  /\ [][\A msg \in StartMsgs :
          HandleStart(msg) => (timers' = timers + 1 /\ turns' = turns
                               /\ pending' = pending)]_vars
  /\ [][timers' > timers
          => (timers' = timers + 1 /\ handled' = handled + 1
              /\ ctrl' = "Active" /\ audio_buffer' = audio_buffer)]_vars
  /\ [][Cardinality(InitialTurns') # Cardinality(InitialTurns)
          => (Cardinality(InitialTurns') = Cardinality(InitialTurns) + 1
              /\ timers' = timers - 1)]_vars
  /\ [](\A t \in InitialTurns :
          (/\ turns[t].audio_len >= 6 /\ turns[t].audio_len % 2 = 0
           /\ turns[t].pc = "done" /\ ctrl # "Terminated")
            => /\ turns[t].result = "completed"
               /\ Len(MediaFrames(t)) >= 1
               /\ Len(MarkFrames(t)) = 1
               /\ SentBy(t)[Len(SentBy(t))].event = "mark")

\* two start frames have each produced an initial turn, and one of them has
\* played its reply to the end on the open connection
InitialTurnPerStartWitness ==
  /\ Cardinality(InitialTurns) = 2
  /\ ctrl = "Active"
  /\ \E t \in InitialTurns :
       /\ turns[t].result = "completed"
       /\ turns[t].audio_len >= 6
       /\ Len(MediaFrames(t)) >= 1

RECURSIVE SumLens(_)
SumLens(frames) ==
  IF frames = <<>> THEN 0 ELSE Head(frames).len + SumLens(Tail(frames))

\* number of chunks of a reply of n telephony bytes
Chunks(n) == (n + 639) \div 640

\* C10: the frames of a turn are the chunks of its encoded reply in order,
\* the k-th at offset 640 (k - 1), none longer than 640 bytes and all but
\* the last exactly 640 bytes, and then one mark named audio_complete: a
\* completed turn has sent all Chunks(L) chunks, L bytes in total, and the
\* mark last; a turn that failed has sent no mark.
ChunkedPlayback ==
  \A t \in DOMAIN turns :
    LET L == turns[t].mulaw_len
        S == SentBy(t)
    IN /\ \A k \in DOMAIN S :
            IF S[k].event = "media"
            THEN /\ k <= Chunks(L)
                 /\ S[k].off = 640 * (k - 1)
                 /\ S[k].len >= 1 /\ S[k].len <= 640
                 /\ k < Chunks(L) => S[k].len = 640
                 /\ k = Chunks(L) => S[k].len = L - 640 * (k - 1)
            ELSE /\ k = Len(S)
                 /\ k = Chunks(L) + 1
                 /\ S[k].name = "audio_complete"
       /\ turns[t].result = "completed"
            => /\ Len(S) = Chunks(L) + 1
               /\ S[Len(S)].event = "mark"
               /\ SumLens(MediaFrames(t)) = L
       /\ turns[t].result = "failed" => MarkFrames(t) = <<>>

\* a reply of 641 bytes has gone out as 640 + 1 bytes and a mark
ChunkedPlaybackWitness ==
  \E t \in DOMAIN turns :
    /\ turns[t].result = "completed"
    /\ turns[t].mulaw_len = 641
    /\ Len(SentBy(t)) = 3

\* C11: the close of the transport touches no turn: a turn in flight at
\* the close keeps taking its steps and, when every step that can be taken
\* is eventually taken, ends; a send it attempts after the close fails,
\* the turn ends there as failed, nothing is sent and nothing outside the
\* turn changes; every turn ends completed, failed or aborted as noise,
\* never cancelled, and is_processing is false once no media-triggered
\* turn is in flight.
TurnsOutliveClose ==
  /\ [][(ctrl # "Terminated" /\ ctrl' = "Terminated")
          => (turns' = turns /\ context' = context /\ outbound' = outbound
              /\ pending' = pending /\ timers' = timers)]_vars
  /\ \A t \in TurnIds :
       (ctrl = "Terminated" /\ t \in DOMAIN turns /\ InFlight(t))
         ~> (t \in DOMAIN turns /\ turns[t].pc = "done")
  /\ [](\A t \in DOMAIN turns :
          (InFlight(t) /\ Settled) => ENABLED TurnStep(t))
  /\ [][\A t \in DOMAIN turns :
          (/\ ctrl = "Terminated"
           /\ turns[t].pc \in {"send", "mark"}
           /\ turns'[t] # turns[t])
            => /\ turns'[t].pc = "done"
               /\ turns'[t].result = "failed"
               /\ outbound' = outbound
               /\ ctrl' = ctrl
               /\ UNCHANGED <<timers, pending, starting, skipped, handled>>
               /\ turns[t].kind = "media" => ~context'.is_processing]_vars
  /\ [](\A t \in DOMAIN turns :
          turns[t].pc = "done"
            => turns[t].result \in {"completed", "failed", "noise"})
  /\ []((\A t \in MediaTurns : ~InFlight(t)) => ~context.is_processing)

\* a media turn was in flight when a further media frame was handled, the
\* transport closed before the turn's first send, the turn went on through
\* generation and synthesis and ended at the send that failed
TurnsOutliveCloseWitness ==
  /\ ctrl = "Terminated"
  /\ Len(turns) = 1
  /\ turns[1].kind = "media"
  /\ turns[1].result = "failed"
  /\ turns[1].audio_len = 3534
  /\ SentBy(1) = <<>>
  /\ audio_buffer = <<[len |-> 1]>>
  /\ ~context.is_processing
  /\ \E k \in DOMAIN history : history[k].role = "assistant"

\* C12: once the transport has closed, by a disconnect or by an error, the
\* loop stays ended: no inbound frame of any kind can be handled, the
\* frame count, the identifiers and the call parameters stay as they are,
\* no byte is added to the accumulator, and no turn task and no timer is
\* created.
ClosedIsTerminal ==
  /\ [][ctrl = "Terminated"
          => /\ ctrl' = "Terminated"
             /\ handled' = handled
             /\ pending' <= pending
             /\ timers' <= timers
             /\ audio_buffer' = audio_buffer \/ audio_buffer' = <<>>
             /\ context'.stream_sid = context.stream_sid
             /\ context'.call_sid = context.call_sid
             /\ context'.provider_name = context.provider_name]_vars
  /\ [](ctrl = "Terminated"
          => /\ \A n \in PayloadLens : ~ENABLED HandleMedia(n)
             /\ \A msg \in StartMsgs : ~ENABLED HandleStart(msg)
             /\ \A event \in LogOnlyEvents : ~ENABLED HandleLogOnly(event)
             /\ \A frame \in BadFrames : ~ENABLED HandleMalformed(frame))

\* the transport has closed one byte short of the threshold, with a frame
\* still to come that is never handled
ClosedIsTerminalWitness ==
  /\ ctrl = "Terminated"
  /\ handled = 1
  /\ handled < MaxEvents
  /\ audio_buffer = <<[len |-> 15999]>>
  /\ turns = <<>>
  /\ pending = 0

IsPrefix(a, b) == Len(a) <= Len(b) /\ SubSeq(b, 1, Len(a)) = a

\* C13: every step leaves the transcript as it was or with one entry added
\* at its end; a speech-to-text result that is not noise is appended as
\* the user entry of its turn in the step in which it returns; every
\* assistant entry of a media-triggered turn has the user entry of the
\* same turn somewhere before it, and a turn has at most one entry of each
\* role.
TranscriptAppendOnly ==
  /\ [][IsPrefix(history, history')
          /\ Len(history') <= Len(history) + 1]_vars
  /\ [][\A t \in TurnIds : \A text \in SttTexts :
          (SttReturn(t, text) /\ ~IsNoise(text))
            => history' = Append(history, [role |-> "user", content |-> text,
                                           turn |-> t])]_vars
  /\ [](\A j \in DOMAIN history :
          (history[j].role = "assistant" /\ history[j].turn \in MediaTurns)
            => \E i \in 1..(j - 1) :
                 /\ history[i].role = "user"
                 /\ history[i].turn = history[j].turn)
  /\ [](\A i, j \in DOMAIN history :
          (history[i].turn = history[j].turn
           /\ history[i].role = history[j].role) => i = j)
  /\ [](\A i \in DOMAIN history :
          history[i].role = "user" => history[i].turn \in MediaTurns)

\* the user entry of a media turn, then the assistant entry of an
\* overlapping initial turn, then the assistant entry of the media turn
TranscriptAppendOnlyWitness ==
  /\ Len(history) = 3
  /\ history[1].role = "user"
  /\ history[2].role = "assistant"
  /\ history[2].turn \in InitialTurns
  /\ history[3].role = "assistant"
  /\ history[3].turn = history[1].turn

\* C14: a step that takes bytes out of the accumulator is the start of a
\* created task that finds is_processing false and sets it: it empties the
\* accumulator, and the turn it starts holds what was in it; the start,
\* connected, stop and mark handlers, the start of an initial turn, a task
\* turned away at the guard and the close leave the accumulator as it is.
DrainOnlyAtAcquire ==
  /\ [][~IsPrefix(audio_buffer, audio_buffer')
          => /\ ~context.is_processing
             /\ context'.is_processing
             /\ audio_buffer' = <<>>
             /\ pending' = pending - 1
             /\ Len(turns') = Len(turns) + 1
             /\ turns'[Len(turns')].kind = "media"
             /\ turns'[Len(turns')].raw = audio_buffer]_vars
  /\ [][(\/ \E event \in LogOnlyEvents : HandleLogOnly(event)
         \/ \E msg \in StartMsgs : HandleStart(msg)
         \/ InitialTurnStart
         \/ TransportClose
         \/ skipped' # skipped)
          => audio_buffer' = audio_buffer]_vars
  /\ [](\A t \in InitialTurns : turns[t].raw = <<>>)

\* an initial turn and a media turn are both in flight: the media turn
\* holds the 16000 bytes, the accumulator is empty, is_processing is set
DrainOnlyAtAcquireWitness ==
  /\ Len(turns) = 2
  /\ turns[1].kind = "initial" /\ turns[1].pc = "gen"
  /\ turns[2].kind = "media" /\ turns[2].pc = "stt"
  /\ turns[2].raw = <<[len |-> 16000]>>
  /\ audio_buffer = <<>>
  /\ context.is_processing

\* the audio drained by the first k turns, in the order they drained it
RECURSIVE Drained(_)
Drained(k) == IF k = 0 THEN <<>> ELSE Drained(k - 1) \o turns[k].raw

\* C15: the audio handed to the turns, turn after turn, followed by what
\* is in the accumulator, is exactly the audio that has arrived, in
\* arrival order: no payload is handed over twice, lost or moved; what a
\* turn was handed never changes afterwards; a media frame adds its
\* payload at the end of the accumulator and to no turn; a drain hands
\* over all of the accumulator and leaves it empty.
DrainExactlyOnce ==
  /\ [](Drained(Len(turns)) \o audio_buffer = arrived)
  /\ [][\A t \in DOMAIN turns : turns'[t].raw = turns[t].raw]_vars
  /\ [][\A n \in PayloadLens :
          HandleMedia(n)
            => /\ audio_buffer' = Append(audio_buffer, [len |-> n])
               /\ turns' = turns]_vars
  /\ [][Len(turns') > Len(turns)
          => \/ /\ turns'[Len(turns')].kind = "initial"
                /\ audio_buffer' = audio_buffer
             \/ /\ turns'[Len(turns')].raw = audio_buffer
                /\ audio_buffer' = <<>>]_vars

\* 16000 bytes are with the turn in flight, the 15999 bytes that arrived
\* meanwhile are in the accumulator
DrainExactlyOnceWitness ==
  /\ Len(turns) = 1
  /\ InFlight(1)
  /\ turns[1].raw = <<[len |-> 16000]>>
  /\ audio_buffer = <<[len |-> 15999]>>
  /\ arrived = <<[len |-> 16000], [len |-> 15999]>>

(* ---------------------- claims on utils/audio.py ----------------------- *)
\* C16: whenever telephony bytes are decoded, the result encoded and that
\* result decoded again, the second decode returns exactly what the first
\* one returned; every one of the 256 byte values is among the bytes
\* decoded first.
CodecRoundTrip ==
  \A k \in DOMAIN calls :
    (calls[k].fn = "mulaw_to_pcm" /\ k + 2 <= Len(calls))
      => /\ calls[k + 1].fn = "pcm_to_mulaw"
         /\ calls[k + 1].args = <<calls[k].result.value>>
         /\ calls[k + 2].fn = "mulaw_to_pcm"
         /\ calls[k + 2].args = <<calls[k + 1].result.value>>
         /\ calls[k + 2].result = calls[k].result
         /\ Len(calls[k].args[1]) = 1
              => frombytes(calls[k + 2].result.value)
                   = <<_ULAW_TO_LINEAR(calls[k].args[1][1])>>

\* the byte 127 decodes to 0, 0 encodes to the byte 255, and 255 decodes
\* to 0 again
CodecRoundTripWitness ==
  /\ Len(calls) = 3
  /\ calls[1].fn = "mulaw_to_pcm"
  /\ calls[1].args = << <<127>> >>
  /\ calls[2].result.value = <<255>>
  /\ calls[3].result.value = <<0, 0>>

\* b with bit 7 flipped
FlipSign(b) == IF b >= 128 THEN b - 128 ELSE b + 128

\* the sample of the reference table for the byte b
Reference(b) ==
  LET m == 255 - b
      magnitude == (((m % 16) * 8 + 132) * 2^((m \div 16) % 8)) - 132
  IN IF m >= 128 THEN -magnitude ELSE magnitude

\* C17: mulaw_to_pcm never raises and returns two bytes per input byte;
\* the sample it returns for a byte is the one of the reference table, lies
\* in -32124..32124, and is the negative of the sample of the byte with
\* bit 7 flipped.
DecodeTable ==
  \A k \in DOMAIN calls :
    calls[k].fn = "mulaw_to_pcm"
      => LET mulaw_data == calls[k].args[1]
             out == calls[k].result
             pcm == frombytes(out.value)
         IN /\ out.raised = ""
            /\ Len(out.value) = 2 * Len(mulaw_data)
            /\ Len(pcm) = Len(mulaw_data)
            /\ \A j \in DOMAIN mulaw_data :
                 /\ pcm[j] = Reference(mulaw_data[j])
                 /\ pcm[j] >= -32124 /\ pcm[j] <= 32124
                 /\ _ULAW_TO_LINEAR(FlipSign(mulaw_data[j])) = -pcm[j]

\* the byte 0 has been decoded to the sample -32124, the bytes 9C 82
DecodeTableWitness ==
  /\ Len(calls) = 1
  /\ calls[1].fn = "mulaw_to_pcm"
  /\ calls[1].args = << <<0>> >>
  /\ calls[1].result.value = <<132, 130>>
  /\ frombytes(calls[1].result.value) = <<-32124>>

\* C18: pcm_to_mulaw returns one byte in 0..255 per sample; the sample a
\* byte decodes to never decreases from a sample s to s + 1, so it never
\* decreases from a sample to any larger one, and every 16-bit sample is
\* among the samples encoded; a sample above 32635 gets the byte of 32635
\* and a sample below -32635, -32768 included, the byte of -32635.
EncoderMonotonic ==
  \A k \in DOMAIN calls :
    (calls[k].fn = "pcm_to_mulaw" /\ calls[k].result.raised = "")
      => LET samples == frombytes(calls[k].args[1])
             out == calls[k].result.value
         IN /\ Len(out) = Len(samples)
            /\ \A j \in DOMAIN samples :
                 LET s == samples[j]
                 IN /\ out[j] \in 0..255
                    /\ s < 32767
                         => _ULAW_TO_LINEAR(out[j])
                              <= _ULAW_TO_LINEAR(_linear_to_mulaw(s + 1))
                    /\ s > 32635 => out[j] = _linear_to_mulaw(32635)
                    /\ s < -32635 => out[j] = _linear_to_mulaw(-32635)

\* the sample -32768, the bytes 00 80, has been encoded to the byte 0, the
\* byte of -32635
EncoderMonotonicWitness ==
  /\ Len(calls) = 1
  /\ calls[1].fn = "pcm_to_mulaw"
  /\ calls[1].args = << <<0, 128>> >>
  /\ calls[1].result.value = <<0>>
  /\ _linear_to_mulaw(-32635) = 0

\* C19: resample called with the same rate twice returns its input, byte
\* for byte, without raising: for the empty buffer, for buffers of an odd
\* number of bytes and for a rate of 0 as well.
ResampleIdentity ==
  \A k \in DOMAIN calls :
    (calls[k].fn = "resample" /\ calls[k].args[2] = calls[k].args[3])
      => /\ calls[k].result.raised = ""
         /\ calls[k].result.value = calls[k].args[1]

\* a buffer of 3 bytes has come back from resample(x, 22050, 22050)
ResampleIdentityWitness ==
  /\ Len(calls) = 1
  /\ calls[1].fn = "resample"
  /\ Len(calls[1].args[1]) = 3
  /\ calls[1].args[2] = 22050
  /\ calls[1].args[3] = 22050
  /\ calls[1].result = Returned(calls[1].args[1])

\* C20: resample called with two different rates, neither of them 0, on n
\* samples returns floor(n * to_rate / from_rate) samples without raising:
\* 2 n samples from 8000 to 16000, floor(n * 8000 / 22050) samples from
\* 22050 to 8000; for every output index the two source indices read are
\* floor(i * from_rate / to_rate) and the next one, clamped to n - 1, and
\* both are within 0..n - 1.
ResampleLength ==
  \A k \in DOMAIN calls :
    LET pcm_bytes == calls[k].args[1]
        from_rate == calls[k].args[2]
        to_rate == calls[k].args[3]
        n == Len(pcm_bytes) \div 2
        m == Len(calls[k].result.value) \div 2
    IN (/\ calls[k].fn = "resample"
        /\ from_rate # to_rate /\ from_rate # 0 /\ to_rate # 0
        /\ Len(pcm_bytes) % 2 = 0)
         => /\ calls[k].result.raised = ""
            /\ Len(calls[k].result.value) = 2 * m
            /\ m = (n * to_rate) \div from_rate
            /\ (from_rate = 8000 /\ to_rate = 16000) => m = 2 * n
            /\ (from_rate = 22050 /\ to_rate = 8000)
                 => m = (n * 8000) \div 22050
            /\ \A i \in 0..(m - 1) :
                 LET lo == src_lo(i, from_rate, to_rate)
                     hi == src_hi(i, n, from_rate, to_rate)
                 IN /\ lo = (i * from_rate) \div to_rate
                    /\ hi = IF lo + 1 > n - 1 THEN n - 1 ELSE lo + 1
                    /\ lo >= 0 /\ lo <= n - 1
                    /\ hi >= 0 /\ hi <= n - 1

\* 9 samples at 22050 Hz have come back as 3 samples at 8000 Hz
ResampleLengthWitness ==
  /\ Len(calls) = 1
  /\ calls[1].fn = "resample"
  /\ Len(calls[1].args[1]) = 18
  /\ calls[1].args[2] = 22050
  /\ calls[1].args[3] = 8000
  /\ calls[1].result.raised = ""
  /\ Len(calls[1].result.value) = 6

(* ------------------------------- C21 ----------------------------------- *)
\* the unsigned little-endian number held by width bytes after offset off
Field(bytes, off, width) ==
  LET RECURSIVE sum(_)
      sum(k) == IF k > width THEN 0 ELSE bytes[off + k] + 256 * sum(k + 1)
  IN sum(1)

\* C21: create_wav(pcm, rate) returns exactly 44 + len(pcm) bytes whose
\* last len(pcm) bytes are pcm unchanged, and whose header holds RIFF size
\* 36 + len(pcm), format tag 1, channel count 1, sample rate rate, byte
\* rate rate * 2, block alignment 2, bits per sample 16 and data length
\* len(pcm).
WavContainer ==
  \A k \in DOMAIN calls :
    calls[k].fn = "create_wav" =>
      LET pcm == calls[k].args[1]
          rate == calls[k].args[2]
          wav == calls[k].result.value
      IN /\ calls[k].result.raised = ""
         /\ Len(wav) = 44 + Len(pcm)
         /\ SubSeq(wav, 45, Len(wav)) = pcm
         /\ SubSeq(wav, 1, 4) = RIFF
         /\ Field(wav, 4, 4) = 36 + Len(pcm)
         /\ Field(wav, 20, 2) = 1
         /\ Field(wav, 22, 2) = 1
         /\ Field(wav, 24, 4) = rate
         /\ Field(wav, 28, 4) = rate * 2
         /\ Field(wav, 32, 2) = 2
         /\ Field(wav, 34, 2) = 16
         /\ Field(wav, 40, 4) = Len(pcm)

\* the call _transcribe makes: a non-empty buffer wrapped at 16000 Hz
WavContainerWitness ==
  \E k \in DOMAIN calls :
    /\ calls[k].fn = "create_wav"
    /\ Len(calls[k].args[1]) = 2 * WholeSamples
    /\ calls[k].args[2] = 16000
    /\ Len(calls[k].result.value) = 44 + 2 * WholeSamples

(* ------------------------------- C23 ----------------------------------- *)
\* C23: frames are handled one at a time in arrival order and a turn never
\* blocks the loop: while a turn is suspended at any of its awaits and the
\* connection is up, every kind of frame can be handled, and a media frame
\* handled then is appended to the end of the accumulator.
LoopNeverBlocked ==
  /\ [](\A t \in DOMAIN turns :
          InFlight(t) /\ TransportUp /\ Settled /\ handled < MaxEvents =>
            /\ \A event \in LogOnlyEvents : ENABLED HandleLogOnly(event)
            /\ Tasks < MaxTasks =>
                 /\ \A msg \in StartMsgs : ENABLED HandleStart(msg)
                 /\ \A n \in PayloadLens : ENABLED HandleMedia(n))
  /\ [][handled' # handled =>
          /\ handled' = handled + 1
          /\ \/ arrived' = arrived /\ audio_buffer' = audio_buffer
             \/ \E n \in PayloadLens :
                  /\ arrived' = Append(arrived, [len |-> n])
                  /\ audio_buffer' = Append(audio_buffer, [len |-> n])]_vars

\* a media frame was appended to the accumulator while a media turn is
\* suspended in the speech-to-text call
LoopNeverBlockedWitness ==
  /\ TransportUp
  /\ audio_buffer # <<>>
  /\ \E t \in DOMAIN turns :
       /\ turns[t].kind = "media"
       /\ turns[t].pc = "stt"
       /\ Len(arrived) > Len(turns[t].raw)

(* ------------------------------- C24 ----------------------------------- *)
\* C24: media frames are acted on only in the Active state: before the
\* first start frame (state Connected) no audio is accumulated and no turn
\* is launched, so no outbound frame carries an empty stream id.
MediaOnlyWhenActive ==
  /\ ctrl = "Connected" =>
       /\ audio_buffer = <<>>
       /\ arrived = <<>>
       /\ pending = 0
       /\ turns = <<>>
  /\ \A t \in DOMAIN outbound : \A k \in DOMAIN outbound[t] :
       outbound[t][k].streamSid # ""

(* ------------------------------- C25 ----------------------------------- *)
\* C25: handling a connected, stop or mark frame changes nothing: the
\* identifiers, call parameters, transcript, accumulator and busy flag stay
\* as they are, no turn is launched, no turn in flight is cancelled, and
\* the loop goes on (stop does not end it).
LogOnlyChangesNothing ==
  [][\A event \in {"connected", "stop", "mark"} :
       HandleLogOnly(event) =>
         /\ UNCHANGED <<context, timers, pending, starting, turns, skipped,
                        outbound, arrived>>
         /\ ctrl' = ctrl
         /\ ctrl' # "Terminated"]_vars

\* two frames were handled, one of them media and the other one neither
\* start nor malformed, and the turn the media frame launched is in flight
LogOnlyChangesNothingWitness ==
  /\ handled = 2
  /\ Len(arrived) = 1
  /\ ctrl = "Connected"
  /\ context.is_processing
  /\ \E t \in DOMAIN turns : InFlight(t) /\ turns[t].kind = "media"

(* ------------------------------- C26 ----------------------------------- *)
\* transcript entries appended by turn t
EntriesOf(t) == SelectSeq(history, LAMBDA e : e.turn = t)

\* C26: the initial turn skips the steps before generation: it drains
\* nothing and no step of it changes the accumulator, it is never in the
\* speech-to-text call, it appends no user entry, and all it appends to the
\* transcript is one assistant entry, once its generation call has returned.
InitialTurnSkipsInput ==
  /\ [](\A t \in InitialTurns :
          /\ turns[t].raw = <<>>
          /\ turns[t].pc # "stt"
          /\ \A k \in DOMAIN EntriesOf(t) : EntriesOf(t)[k].role = "assistant"
          /\ Len(EntriesOf(t)) <= 1
          /\ turns[t].pc \in {"tts", "send", "mark"} => Len(EntriesOf(t)) = 1
          /\ turns[t].pc = "gen" => Len(EntriesOf(t)) = 0)
  /\ [][\A t \in DOMAIN turns' :
          /\ turns'[t].kind = "initial"
          /\ t \in DOMAIN turns => turns'[t] # turns[t]
          => /\ audio_buffer' = audio_buffer
             /\ context'.is_processing = context.is_processing
             /\ \/ history' = history
                \/ \E e \in [role : {"assistant"}, content : {AiText},
                             turn : {t}] : history' = Append(history, e)]_vars

\* an initial turn has run to its end and appended its assistant entry
\* while audio that arrived on the connection is still in the accumulator
InitialTurnSkipsInputWitness ==
  /\ audio_buffer # <<>>
  /\ audio_buffer = arrived
  /\ \E t \in InitialTurns :
       /\ turns[t].result = "completed"
       /\ Len(EntriesOf(t)) = 1

(* ------------------------------- C28 ----------------------------------- *)
\* pcm_to_mulaw, and resample between two different rates, raise ValueError
\* and return nothing on every buffer of odd length; mulaw_to_pcm returns
\* two bytes per input byte on buffers of every length
OddPcmRejected ==
  /\ \A pcm \in ResampleInputs \cup PcmInputs :
       Len(pcm) % 2 = 1 =>
         /\ pcm_to_mulaw(pcm) = Raised("ValueError")
         /\ \A from_rate \in Rates : \A to_rate \in Rates \ {from_rate} :
              resample(pcm, from_rate, to_rate) = Raised("ValueError")
  /\ \A mulaw_data \in MulawInputs :
       /\ mulaw_to_pcm(mulaw_data).raised = ""
       /\ Len(mulaw_to_pcm(mulaw_data).value) = 2 * Len(mulaw_data)

\* C28: linear PCM of odd length is rejected, not truncated: pcm_to_mulaw
\* and resample between different rates raise on it and return nothing, so
\* a turn whose synthesized audio has an odd byte count ends failed with no
\* media frame and no mark sent (a media turn with the busy flag reset);
\* audio of even length is sent in full; mulaw_to_pcm never raises.
OddAudioAbortsTurn ==
  /\ OddPcmRejected
  /\ \A t \in DOMAIN turns :
       turns[t].audio_len >= 0 =>
         LET mulaw_data == Encoded[turns[t].audio_len]
         IN /\ mulaw_data.raised # "" <=> turns[t].audio_len % 2 = 1
            /\ mulaw_data.raised # "" =>
                 /\ turns[t].pc = "done"
                 /\ turns[t].result = "failed"
                 /\ outbound[t] = <<>>
            /\ mulaw_data.raised = "" =>
                 turns[t].mulaw_len = Len(mulaw_data.value)

\* synthesis has returned 3 bytes to a media turn; the turn is over, has
\* sent nothing, and the busy flag is down while the loop is still running
OddAudioAbortsTurnWitness ==
  /\ TransportUp
  /\ ~context.is_processing
  /\ \E t \in MediaTurns :
       /\ turns[t].audio_len = 3
       /\ turns[t].result = "failed"
       /\ outbound[t] = <<>>
       /\ Len(EntriesOf(t)) = 2

(* ------------------------------- C29 ----------------------------------- *)
\* C29: once the transport has closed no new turn starts: an initial turn
\* whose timer has not fired at the close is never launched, so no turn
\* begins, and no transcript entry is appended by a turn begun, after the
\* close.
NoTurnAfterClose ==
  [][ctrl = "Terminated" =>
       /\ Len(turns') = Len(turns)
       /\ timers' = timers]_vars

(* ------------------------------- C27 ----------------------------------- *)
\* C27: a generation request is one system message, then the most recent
\* min(6, len(transcript)) transcript entries in transcript order, then one
\* user instruction: never more than 8 messages, however long the
\* transcript.
BoundedRequest ==
  \A c \in DOMAIN calls :
    calls[c].fn = "_generate_ai_response" =>
      LET transcript == calls[c].args[1].conversation_history
          request == calls[c].result.value
          n == Min(6, Len(transcript))
      IN /\ Len(request) = n + 2
         /\ Len(request) <= 8
         /\ request[1].role = "system"
         /\ DOMAIN request[1] = {"role", "content"}
         /\ request[n + 2].role = "user"
         /\ DOMAIN request[n + 2] = {"role", "content"}
         /\ \A k \in 1..n : request[1 + k] = transcript[Len(transcript) - n + k]

\* a reactive request composed from a transcript of more than 6 entries
BoundedRequestWitness ==
  \E c \in DOMAIN calls :
    /\ calls[c].fn = "_generate_ai_response"
    /\ ~calls[c].args[2]
    /\ Len(calls[c].args[1].conversation_history) > 6
    /\ Len(calls[c].result.value) = 8

(* ------------------------------- C30 ----------------------------------- *)
\* C30: the last message a media turn's reply is generated for is the user
\* entry that turn has just appended, whatever other turns are in flight:
\* the final transcript entry of its request is its own user entry and
\* last_msg is that entry's content.
ReplyToOwnEntry ==
  \A t \in MediaTurns :
    turns[t].pc = "gen" =>
      LET request == turns[t].messages
          final == request[Len(request) - 1]
      IN /\ Len(request) >= 3
         /\ final.role = "user"
         /\ final.turn = t
         /\ final.content = turns[t].last_msg
         /\ EntriesOf(t) = <<final>>

\* a media turn is suspended in its generation call, composed for its own
\* user entry, and an initial turn that was in flight at that time has
\* appended its assistant entry after it
ReplyToOwnEntryWitness ==
  \E t \in MediaTurns : \E i \in InitialTurns :
    /\ turns[t].pc = "gen"
    /\ turns[i].pc = "tts"
    /\ Len(history) = 2
    /\ history[1].turn = t
    /\ history[2].turn = i
    /\ turns[t].last_msg = history[1].content

(* ------------------------------- C22 ----------------------------------- *)
\* C22: two sessions on two connections share no mutable state: a step of
\* one session leaves the other session's identifiers, call parameters,
\* transcript, accumulator, busy flag, tasks and outbound frames as they
\* are, every step of the pair is a step of one session alone, and what
\* one session holds and sends never comes from the other: its identifiers
\* are its own, its transcript holds entries of its own turns, its
\* accumulator the payloads that arrived on it, and its outbound frames
\* carry its own stream id.
SessionsIsolated ==
  /\ [][/\ peer' # peer => session' = session
        /\ session' # session => peer' = peer]_vars
  /\ [](/\ context.stream_sid \in {"", "MZ1"}
        /\ context.call_sid \in {"", "CA1"}
        /\ context.provider_name \in {"", "Acme Dental"}
        /\ peer.context.stream_sid \in {"", "MZ2"}
        /\ peer.context.call_sid \in {"", "CA2"}
        /\ peer.context.provider_name \in {"", "Bright Smiles"}
        /\ \A k \in DOMAIN history : history[k].turn \in DOMAIN turns
        /\ \A k \in DOMAIN peer.context.conversation_history :
             peer.context.conversation_history[k].turn \in DOMAIN peer.turns
        /\ Len(audio_buffer) <= Len(arrived)
        /\ \A t \in DOMAIN outbound : \A k \in DOMAIN outbound[t] :
             outbound[t][k].streamSid \in {"", "MZ1"})

\* both sessions are active under their own identifiers, each with a media
\* turn of its own in flight and its own transcript
SessionsIsolatedWitness ==
  /\ context.stream_sid = "MZ1"
  /\ peer.context.stream_sid = "MZ2"
  /\ context.is_processing
  /\ peer.context.is_processing
  /\ Len(history) = 2
  /\ Len(peer.context.conversation_history) = 1
  /\ \E t \in DOMAIN outbound : outbound[t] # <<>>
====
